---- MODULE Spec2Model ----
(***************************************************************************)
(* Model of the intercom-backend call orchestrator: the StasisStart        *)
(* creation step, the ring timer, the end/reject route, the                *)
(* EndpointStateChange handler, the pending-originate poller and the       *)
(* TTL'd Redis records they coordinate through.                            *)
(*                                                                         *)
(* Time is a discrete clock `now` (seconds).  An awaited call of a handler *)
(* is one action; other handlers and the clock may move between two        *)
(* awaited calls of the same handler.                                      *)
(***************************************************************************)
EXTENDS Integers, Sequences, FiniteSets, TLC

\* ---- program constants ----
CallTokenTtlSec == 15
RingTimeoutSec == 15
PollPeriodSec == 2


\* ---- bounds of the model ----
MaxStart == 0          \* latest instant at which a ring or a route request starts
MaxSlow == 1           \* seconds that pass while some handler is suspended in an await
MaxEndRequests == 2    \* POST /calls/end|reject requests per token
MaxOriginates == 2     \* cap of the per-endpoint counter of successful originates
MaxSweeps == 1         \* cleanupStaleEndpoints sweeps within the span of a ring
MaxCrashes == 1        \* crashes of the process, each followed by its restart
MaxBadRequests == 1    \* requests to the end route whose body has no callToken
MaxRejections == 1     \* rejected handler promises in a run
MaxCloses == 8         \* closes of the event-stream socket in a run

\* ---- identities ----
Calls == {"CH1", "CH2"}            \* doorphone rings, named by their channel.id
Rings == {"CH1"}                   \* the ring of the specifications that follow one Call
RouteTokens == {"R1"}              \* tokens minted by POST /calls/credentials
Tokens == Calls \cup RouteTokens   \* callToken values (random UUIDs in the code)
OutgoingTokens == {"O1"}           \* tokens minted by POST /calls/outgoing-credentials
AllTokens == Tokens \cup OutgoingTokens
Channels == Calls
TmpEndpoint(c) == <<"tmp", c>>     \* `tmp_${callId}`
OutEndpoint(t) == <<"out", t>>     \* `out_${callToken}`
TmpEndpoints == {TmpEndpoint(c) : c \in Calls}
RingEndpoints == {TmpEndpoint(c) : c \in Rings}
Endpoints == TmpEndpoints \cup {OutEndpoint(t) : t \in RouteTokens \cup OutgoingTokens}
EscHandlers == {1, 2}              \* concurrently running EndpointStateChange handlers
Pollers == {1, 2}                  \* concurrently running checkPendingOriginate ticks
PushTokenCounts == {0, 1}          \* rows of push_tokens for env.realphone
EndpointStates == {"online", "offline", "unknown"}

\* the clock stops once every record and timer of the bounded run is over
Horizon == MaxStart + MaxSlow + CallTokenTtlSec + 1

NoRec == [none |-> TRUE]
Null == [null |-> TRUE]
NoChannel == "none"
NoToken == "none"
CleanupRequests == {"X1", "X2"}    \* POST /calls/outgoing-cleanup requests
\* callers of createTempSipEndpoint / deleteTempSipEndpoint that may be between two statements
SqlClients == OutgoingTokens \cup CleanupRequests \cup {"janitor"}

\* key families `call:`, `outgoing:`, `endpoint:`, `channel:`, `originate:` and their
\* ids; any token can be looked up in either token family
KeyIds ==
  [call |-> AllTokens, outgoing |-> AllTokens, endpoint |-> Endpoints,
   channel |-> Channels, originate |-> Endpoints]

VARIABLES
  now,        \* the clock
  kv,         \* Redis: family -> id -> NoRec or [val, exp]
  pg,         \* realtime tables: ps_aors, ps_auths, ps_endpoints -> ids that have a row
  pushTokens, \* number of push tokens registered for env.realphone
  pc,         \* per ring: position of the StasisStart handler
  routePc,    \* per route token: position of POST /calls/credentials
  slow,       \* seconds that have passed with a handler suspended in an await
  bridgeOf,   \* per ring: id of the bridge the handler created (0: none)
  failedAt,   \* per ring: the awaited call that threw ("" : none)
  bridges,    \* engine: sequence of bridges, each the set of its channels
  hangups,    \* engine: DELETE /channels/<ch> requests received, per channel
  originates, \* engine: successful POST /channels, per endpoint
  reachable,  \* engine: an originate to the endpoint would succeed
  pushes,     \* push vendor: batches accepted, per ring
  timer,      \* per ring: the ring-timeout task
  endLog,     \* per token: responses of POST /calls/end|reject, in order
  esc,        \* per handler slot: a running EndpointStateChange handler
  poll,       \* per poller slot: a running checkPendingOriginate tick
  nextPoll,   \* instant of the next setInterval(checkPendingOriginate) tick
  deleted,    \* per endpoint: a deletePendingOriginate removed its live record
  ready,      \* per endpoint: it has been reachable while its originate: record was live
  outPc,      \* per outgoing token: position of POST /calls/outgoing-credentials
  jan,        \* the running cleanupStaleEndpoints sweep
  sweeps,     \* setInterval(cleanupStaleEndpoints) sweeps started so far
  cred,       \* per ring: the task GET /calls/credentials leaves running
  ended,      \* per channel: its StasisEnd event has been handled
  sql,        \* per database client: statements of its running create/delete already executed
  clean,      \* per cleanup request: position of POST /calls/outgoing-cleanup and its token
  realtime,   \* realtime tables with their columns: table -> set of rows
  last,       \* the latest createTempSipEndpoint / deleteTempSipEndpoint call on `realtime`
  crashes,    \* crashes of the process so far
  ws,         \* connectAriEvents: attempts, the current socket, the reconnect timers
  appArgs,    \* per endpoint: the bridge ids passed as appArgs of its originate requests
  leg,        \* StasisStart handler of the outbound leg: position, bridge, add attempts
  badLog,     \* POST /calls/end|reject: responses to bodies without callToken, in order
  unhandled   \* rejections of event handlers that nothing caught

vars ==
  <<now, slow, kv, pg, pushTokens, pc, routePc, bridgeOf, failedAt, bridges, hangups,
    originates, reachable, pushes, timer, endLog, esc, poll, nextPoll, deleted, ready,
    outPc, jan, sweeps, cred, ended, sql, clean, realtime, last, crashes, ws,
    appArgs, leg, badLog, unhandled>>

\* ---- Redis (store/redis) ----
\* redis.set(key, JSON, "EX", ttlSec) executed at instant t
\* redis.set(key, value) without EX: the record outlives every clock reading (not the
\* code's call)
KvSetWithoutExpiry(store, fam, id, val, ttlSec, t) ==
  [store EXCEPT ![fam][id] = [val |-> val, exp |-> Horizon + ttlSec]]
KvSet(store, fam, id, val, ttlSec, t) ==
  [store EXCEPT ![fam][id] = [val |-> val, exp |-> t + ttlSec]]

\* redis.get(key) executed at instant t: null when missing or expired
KvGet(store, fam, id, t) ==
  IF store[fam][id] # NoRec /\ t < store[fam][id].exp THEN store[fam][id].val ELSE Null

\* redis.del(key)
KvDel(store, fam, id) == [store EXCEPT ![fam][id] = NoRec]

\* what Redis holds at instant t: records past their EX are gone
KvExpire(store, t) ==
  [fam \in DOMAIN store |->
    [id \in DOMAIN store[fam] |->
      IF store[fam][id] # NoRec /\ store[fam][id].exp <= t THEN NoRec
      ELSE store[fam][id]]]

\* the record is written with a TTL of one second
setCallTokenShortLived(store, token, payload, ttlSec, t) ==
  KvSet(store, "call", token, payload, 1, t)
setCallToken(store, token, payload, ttlSec, t) ==
  KvSet(store, "call", token, payload, ttlSec, t)
getCallToken(store, token, t) == KvGet(store, "call", token, t)
setOutgoingToken(store, token, payload, ttlSec, t) ==
  KvSet(store, "outgoing", token, payload, ttlSec, t)
getOutgoingToken(store, token, t) == KvGet(store, "outgoing", token, t)
\* the write is dropped
setEndpointSessionDropped(store, e, payload, ttlSec, t) == store
setEndpointSession(store, e, payload, ttlSec, t) ==
  KvSet(store, "endpoint", e, payload, ttlSec, t)
getEndpointSession(store, e, t) == KvGet(store, "endpoint", e, t)
\* the write is dropped
setChannelSessionDropped(store, ch, payload, ttlSec, t) == store
setChannelSession(store, ch, payload, ttlSec, t) ==
  KvSet(store, "channel", ch, payload, ttlSec, t)
getChannelSession(store, ch, t) == KvGet(store, "channel", ch, t)
\* the write is dropped
setPendingOriginateDropped(store, e, payload, ttlSec, t) == store
setPendingOriginate(store, e, payload, ttlSec, t) ==
  KvSet(store, "originate", e, payload, ttlSec, t)
\* a read of a key that is never written (a wrong key prefix)
getPendingOriginateWrongKey(store, e, t) == Null
getPendingOriginate(store, e, t) == KvGet(store, "originate", e, t)
deletePendingOriginate(store, e) == KvDel(store, "originate", e)

\* ---- realtime store (store/postgres) ----
\* the three statements of createTempSipEndpoint and of deleteTempSipEndpoint, in
\* the order in which they are awaited
\* the endpoint row inserted first (not the code's order)
InsertOrderEndpointFirst == <<"endpoints", "auths", "aors">>
InsertOrder == <<"aors", "auths", "endpoints">>
DeleteOrder == <<"endpoints", "auths", "aors">>
NoRows == [tbl \in {"aors", "auths", "endpoints"} |-> {}]

\* the function throws at its statement n + 1: the first n statements have run
createTempSipEndpointUpTo(rows, id, n) ==
  [tbl \in DOMAIN rows |->
     IF \E i \in 1..n : InsertOrder[i] = tbl THEN rows[tbl] \cup {id} ELSE rows[tbl]]
deleteTempSipEndpointUpTo(rows, id, n) ==
  [tbl \in DOMAIN rows |->
     IF \E i \in 1..n : DeleteOrder[i] = tbl THEN rows[tbl] \ {id} ELSE rows[tbl]]

createTempSipEndpoint(rows, id) == createTempSipEndpointUpTo(rows, id, 3)
deleteTempSipEndpoint(rows, id) == deleteTempSipEndpointUpTo(rows, id, 3)
listTempSipEndpoints(rows) == rows.endpoints

\* ---- engine (ari/client) ----
\* DELETE /channels/<ch>, issued by the ring-timeout task or by the end route
\* a hangup that reaches every channel (not the code's request)
hangupEveryChannel(h, ch, by) == [c \in DOMAIN h |-> [h[c] EXCEPT ![by] = @ + 1]]
hangupChannel(h, ch, by) == [h EXCEPT ![ch][by] = @ + 1]

\* POST /bridges/<b>/addChannel: a channel is in one bridge at a time, the engine
\* moves it out of the bridge it was in
addChannelToBridge(bs, b, ch) ==
  [i \in DOMAIN bs |-> IF i = b THEN bs[i] \cup {ch} ELSE bs[i] \ {ch}]

\* the channel of the outbound (client) leg
LegChannel == "L1"
\* the StasisStart handler of an outbound leg before its event
LegIdle == [pc |-> "idle", bridge |-> 0, adds |-> 0, added |-> "no",
            inspected |-> FALSE, answered |-> "none"]

Init ==
  /\ now = 0
  /\ kv = [fam \in DOMAIN KeyIds |-> [id \in KeyIds[fam] |-> NoRec]]
  /\ pg = NoRows
  /\ pushTokens \in PushTokenCounts
  /\ pc = [c \in Calls |-> "idle"]
  /\ routePc = [t \in RouteTokens |-> "idle"]
  /\ slow = 0
  /\ bridgeOf = [c \in Calls |-> 0]
  /\ failedAt = [c \in Calls |-> ""]
  /\ bridges = <<>>
  /\ hangups = [ch \in Channels |-> [timer |-> 0, end |-> 0]]
  /\ originates = [e \in Endpoints |-> 0]
  /\ reachable = [e \in Endpoints |-> FALSE]
  /\ pushes = [c \in Calls |-> 0]
  /\ timer = [c \in Calls |-> [st |-> "none", at |-> 0, sawCall |-> FALSE]]
  /\ endLog = [t \in Tokens |-> <<>>]
  /\ esc = [h \in EscHandlers |-> [pc |-> "idle"]]
  /\ poll = [p \in Pollers |-> [pc |-> "idle"]]
  /\ nextPoll = PollPeriodSec
  /\ deleted = [e \in Endpoints |-> FALSE]
  /\ ready = [e \in Endpoints |-> FALSE]
  /\ outPc = [t \in OutgoingTokens |-> "idle"]
  /\ jan = [pc |-> "idle"]
  /\ cred = [c \in Calls |-> [pc |-> "idle", bridge |-> 0]]
  /\ sweeps = 0
  /\ ended = [ch \in Channels |-> FALSE]
  /\ sql = [cl \in SqlClients |-> 0]
  /\ clean = [r \in CleanupRequests |-> [pc |-> "idle", token |-> NoToken]]
  /\ realtime = [tbl \in {"aors", "auths", "endpoints"} |-> {}]
  /\ last = [op |-> "none"]
  /\ crashes = 0
  /\ ws = [attempts |-> 0, sock |-> "connecting", pending |-> 0, delayMs |-> 0,
           row |-> 0, closes |-> 0, scheduled |-> 0]
  /\ appArgs = [e \in Endpoints |-> {}]
  /\ leg = LegIdle
  /\ badLog = <<>>
  /\ unhandled = 0

\* ---- StasisStart of a doorphone leg: the creation step (index.ts 374-483) ----
\* a slot of a handler that has returned
Free(proc) == proc.pc \in {"idle", "failed"}

callVars == <<pc, bridgeOf, failedAt>>
legVars == <<leg, badLog, unhandled>>
auxVars == <<sql, clean, realtime, last, crashes, ws, legVars>>
engineVars == <<bridges, hangups, originates, reachable>>
originateVars == <<esc, poll, nextPoll, deleted, ready>>
sweepVars == <<outPc, jan, sweeps>>

InFlight(c) == pc[c] \notin {"idle", "done", "noTokens", "aborted", "lost"}

\* the error is swallowed and the handler goes on with the index writes
AbortSwallowed(c, step) ==
  /\ pc' = [pc EXCEPT ![c] = "setCallToken"]
  /\ failedAt' = [failedAt EXCEPT ![c] = step]

\* the handler leaves through the outer catch (index.ts 480-482)
Abort(c, step) ==
  /\ pc' = [pc EXCEPT ![c] = "aborted"]
  /\ failedAt' = [failedAt EXCEPT ![c] = step]

CallPayload(c) == [channelId |-> c, endpointId |-> TmpEndpoint(c)]

\* the event arrives; args[0] is not "outgoing"
StasisStart(c) ==
  /\ pc[c] = "idle"
  /\ now <= MaxStart
  /\ pc' = [pc EXCEPT ![c] = "createEndpoint"]
  /\ UNCHANGED <<auxVars, appArgs, ended, sweepVars, cred, now, slow, kv, pg, pushTokens, routePc, bridgeOf, failedAt, engineVars,
                 pushes, timer, endLog, originateVars>>

CreateEndpoint(c) ==
  /\ pc[c] = "createEndpoint"
  /\ \/ /\ pg' = createTempSipEndpoint(pg, TmpEndpoint(c))
        /\ pc' = [pc EXCEPT ![c] = "setCallToken"]
        /\ UNCHANGED failedAt
     \/ /\ Abort(c, "createTempSipEndpoint")
        /\ \E n \in 0..2 : pg' = createTempSipEndpointUpTo(pg, TmpEndpoint(c), n)
  /\ UNCHANGED <<auxVars, appArgs, ended, sweepVars, cred, now, slow, kv, pushTokens, routePc, bridgeOf, engineVars,
                 pushes, timer, endLog, originateVars>>

\* one of the three index writes; `next` is the handler's next awaited call
IndexWrite(c, at, next, newKv, step) ==
  /\ pc[c] = at
  /\ \/ /\ kv' = newKv
        /\ pc' = [pc EXCEPT ![c] = next]
        /\ UNCHANGED failedAt
     \/ /\ Abort(c, step)
        /\ UNCHANGED kv
  /\ UNCHANGED <<auxVars, appArgs, ended, sweepVars, cred, now, slow, pg, pushTokens, routePc, bridgeOf, engineVars,
                 pushes, timer, endLog, originateVars>>

SetCallToken(c) ==
  IndexWrite(c, "setCallToken", "setEndpointSession",
             setCallToken(kv, c, CallPayload(c), CallTokenTtlSec, now), "setCallToken")

SetEndpointSession(c) ==
  IndexWrite(c, "setEndpointSession", "setChannelSession",
             setEndpointSession(kv, TmpEndpoint(c), [type |-> "call", token |-> c],
                                CallTokenTtlSec, now),
             "setEndpointSession")

SetChannelSession(c) ==
  IndexWrite(c, "setChannelSession", "createBridge",
             setChannelSession(kv, c, [callToken |-> c, endpointId |-> TmpEndpoint(c)],
                               CallTokenTtlSec, now),
             "setChannelSession")

\* inner try (index.ts 421-432): a failure is logged and the handler goes on
CreateBridge(c) ==
  /\ pc[c] = "createBridge"
  /\ \/ /\ bridges' = Append(bridges, {})
        /\ bridgeOf' = [bridgeOf EXCEPT ![c] = Len(bridges) + 1]
        /\ pc' = [pc EXCEPT ![c] = "addChannel"]
        /\ UNCHANGED failedAt
     \/ /\ pc' = [pc EXCEPT ![c] = "listPushTokens"]
        /\ failedAt' = [failedAt EXCEPT ![c] = "createBridge"]
        /\ UNCHANGED <<bridges, bridgeOf>>
  /\ UNCHANGED <<auxVars, appArgs, ended, sweepVars, cred, now, slow, kv, pg, pushTokens, routePc, hangups, originates,
                 reachable, pushes, timer, endLog, originateVars>>

AddChannelToBridge(c) ==
  /\ pc[c] = "addChannel"
  /\ \/ /\ bridges' = addChannelToBridge(bridges, bridgeOf[c], c)
        /\ pc' = [pc EXCEPT ![c] = "setPendingOriginate"]
        /\ UNCHANGED failedAt
     \/ /\ pc' = [pc EXCEPT ![c] = "listPushTokens"]
        /\ failedAt' = [failedAt EXCEPT ![c] = "addChannelToBridge"]
        /\ UNCHANGED bridges
  /\ UNCHANGED <<auxVars, appArgs, ended, sweepVars, cred, now, slow, kv, pg, pushTokens, routePc, bridgeOf, hangups,
                 originates, reachable, pushes, timer, endLog, originateVars>>

SetPendingOriginate(c) ==
  /\ pc[c] = "setPendingOriginate"
  /\ pc' = [pc EXCEPT ![c] = "listPushTokens"]
  /\ \/ /\ kv' = setPendingOriginate(kv, TmpEndpoint(c),
                                     [bridgeId |-> bridgeOf[c], channelId |-> c],
                                     RingTimeoutSec, now)
        /\ ready' = [ready EXCEPT ![TmpEndpoint(c)] = @ \/ reachable[TmpEndpoint(c)]]
        /\ UNCHANGED failedAt
     \/ /\ failedAt' = [failedAt EXCEPT ![c] = "setPendingOriginate"]
        /\ UNCHANGED <<kv, ready>>
  /\ UNCHANGED <<auxVars, appArgs, ended, sweepVars, cred, now, slow, pg, pushTokens, routePc, bridgeOf, engineVars,
                 pushes, timer, endLog, esc, poll, nextPoll, deleted>>

ListPushTokens(c) ==
  /\ pc[c] = "listPushTokens"
  /\ \/ /\ pc' = [pc EXCEPT ![c] = IF pushTokens = 0 THEN "noTokens" ELSE "sendPush"]
        /\ UNCHANGED failedAt
     \/ Abort(c, "listPushTokens")
  /\ UNCHANGED <<auxVars, appArgs, ended, sweepVars, cred, now, slow, kv, pg, pushTokens, routePc, bridgeOf, engineVars,
                 pushes, timer, endLog, originateVars>>

\* the ring-timeout task starts its sleep (index.ts 457-459)
ArmRingTimer(tm, c, t) ==
  [tm EXCEPT ![c] = [st |-> "armed", at |-> t + RingTimeoutSec, sawCall |-> FALSE]]

\* sendExpoPush resolves and the timer is armed, or it throws into the outer catch
SendPush(c) ==
  /\ pc[c] = "sendPush"
  /\ \/ /\ pushes' = [pushes EXCEPT ![c] = @ + 1]
        /\ timer' = ArmRingTimer(timer, c, now)
        /\ pc' = [pc EXCEPT ![c] = "done"]
        /\ UNCHANGED failedAt
     \/ /\ Abort(c, "sendExpoPush")
        /\ UNCHANGED <<pushes, timer>>
  /\ UNCHANGED <<auxVars, appArgs, ended, sweepVars, cred, now, slow, kv, pg, pushTokens, routePc, bridgeOf, engineVars,
                 endLog, originateVars>>

\* ---- the ring-timeout task wakes up (index.ts 459-479) ----
\* the task hangs up without looking at the record
StillActiveUnchecked(store, c, t) == TRUE
StillActive(store, c, t) == getCallToken(store, c, t) # Null

RingTimeout(c) ==
  /\ timer[c].st = "armed"
  /\ now >= timer[c].at
  /\ LET stillActive == StillActive(kv, c, now) IN
       /\ timer' = [timer EXCEPT ![c] = [st |-> "fired", at |-> @.at,
                                         sawCall |-> stillActive]]
       /\ hangups' = IF stillActive THEN hangupChannel(hangups, c, "timer") ELSE hangups
  /\ UNCHANGED <<auxVars, appArgs, ended, sweepVars, cred, now, slow, kv, pg, pushTokens, callVars, routePc, bridges, originates,
                 reachable, pushes, endLog, originateVars>>

\* ---- StasisEnd of the doorphone channel (index.ts 485-490) ----
\* the handler logs and returns: the records are left to their TTL
\* the handler of the first draft, which deletes the channel session (index.ts 113-128)
stasisEndDeleting(store, ch) == KvDel(store, "channel", ch)
\* what the handler leaves in Redis: it only logs
stasisEndRecords(store, ch) == store

StasisEnd(c) ==
  /\ pc[c] # "idle"
  /\ ~ended[c]
  /\ ended' = [ended EXCEPT ![c] = TRUE]
  /\ kv' = stasisEndRecords(kv, c)
  /\ UNCHANGED <<auxVars, appArgs, now, slow, pg, pushTokens, callVars, routePc, engineVars,
                 pushes, timer, endLog, originateVars, sweepVars, cred>>

\* ---- POST /calls/end and /calls/reject (part_001 49-91) ----
EndResponse(payload) == IF payload = Null THEN "404" ELSE "ok"

\* DELETE /channels/<ch> resolves or throws; the engine has no channel left to hang up
\* once a hangup was issued for it, and the request throws
hangupOutcomes(h, ch) ==
  IF h[ch].timer + h[ch].end > 0 THEN {"threw"} ELSE {"ok", "threw"}

\* the response were the throw of hangupChannel to leave the route (not the code's catch)
afterHangupRethrown(outcome) == IF outcome = "threw" THEN "500" ELSE "ok"
\* catch around hangupChannel: the throw is logged and the route answers { ok: true }
afterHangup(outcome) == "ok"

\* the body carries a token: getCallToken, then hangupChannel, which resolves or throws
EndCallByToken(t) ==
  /\ Len(endLog[t]) < MaxEndRequests
  /\ LET payload == getCallToken(kv, t, now) IN
       IF payload # Null /\ payload.channelId # NoChannel
       THEN /\ hangups' = hangupChannel(hangups, payload.channelId, "end")
            /\ \E outcome \in hangupOutcomes(hangups, payload.channelId) :
                 endLog' = [endLog EXCEPT ![t] = Append(@, afterHangup(outcome))]
       ELSE /\ endLog' = [endLog EXCEPT ![t] = Append(@, EndResponse(payload))]
            /\ UNCHANGED hangups
  /\ UNCHANGED <<auxVars, appArgs, ended, sweepVars, cred, now, slow, kv, pg, pushTokens, callVars, routePc, bridges, originates,
                 reachable, pushes, timer, originateVars>>

\* the body carries no callToken: 400 before anything is read (part_001 72-76, 84-88)
EndMissingToken ==
  /\ Len(badLog) < MaxBadRequests
  /\ badLog' = Append(badLog, "400")
  /\ UNCHANGED <<sql, clean, realtime, last, crashes, ws, leg, unhandled, appArgs, ended,
                 sweepVars, cred, now, slow, kv, pg, pushTokens, callVars, routePc, engineVars, pushes, timer,
                 endLog, originateVars>>

\* ---- POST /calls/credentials (routes/push.ts 53-83) ----
RouteCredentials(t) ==
  /\ \/ /\ routePc[t] = "idle"
        /\ now <= MaxStart
        /\ \/ /\ pg' = createTempSipEndpoint(pg, OutEndpoint(t))
              /\ routePc' = [routePc EXCEPT ![t] = "setCallToken"]
           \/ /\ routePc' = [routePc EXCEPT ![t] = "done"]
              /\ \E n \in 0..2 : pg' = createTempSipEndpointUpTo(pg, OutEndpoint(t), n)
        /\ UNCHANGED kv
     \/ /\ routePc[t] = "setCallToken"
        /\ \/ /\ kv' = setCallToken(kv, t, [channelId |-> NoChannel,
                                           endpointId |-> OutEndpoint(t)],
                                    CallTokenTtlSec, now)
              /\ routePc' = [routePc EXCEPT ![t] = "setEndpointSession"]
           \/ /\ routePc' = [routePc EXCEPT ![t] = "done"]
              /\ UNCHANGED kv
        /\ UNCHANGED pg
     \/ /\ routePc[t] = "setEndpointSession"
        /\ routePc' = [routePc EXCEPT ![t] = "done"]
        /\ \/ kv' = setEndpointSession(kv, OutEndpoint(t),
                                       [type |-> "outgoing", token |-> t],
                                       CallTokenTtlSec, now)
           \/ UNCHANGED kv
        /\ UNCHANGED pg
  /\ UNCHANGED <<auxVars, appArgs, ended, sweepVars, cred, now, slow, pushTokens, callVars, engineVars, pushes, timer, endLog,
                 originateVars>>

\* ---- the clock ----
\* some handler is between two of its awaited calls
Suspended ==
  \/ \E c \in Calls : InFlight(c)
  \/ \E t \in RouteTokens : routePc[t] \notin {"idle", "done"}
  \/ \E h \in EscHandlers : esc[h].pc # "idle"
  \/ \E p \in Pollers : ~Free(poll[p])
  \/ \E t \in OutgoingTokens : outPc[t] \notin {"idle", "done"}
  \/ ~Free(jan)
  \/ \E c \in Calls : cred[c].pc \in {"createBridge", "addChannel", "setPendingOriginate"}
  \/ \E cl \in SqlClients : sql[cl] > 0
  \/ \E r \in CleanupRequests : clean[r].pc = "delete"

\* A second passes.  A timer that is due runs first; at most MaxSlow seconds pass
\* while a handler is suspended.
Tick ==
  /\ now < Horizon
  /\ \A c \in Calls : ~(timer[c].st = "armed" /\ timer[c].at <= now)
  /\ slow' = IF Suspended THEN slow + 1 ELSE slow
  /\ slow' <= MaxSlow
  /\ now' = now + 1
  /\ kv' = KvExpire(kv, now + 1)
  /\ UNCHANGED <<auxVars, appArgs, ended, sweepVars, cred, pg, pushTokens, callVars, routePc, engineVars, pushes, timer, endLog,
                 originateVars>>

\* ---- originate (ari/client originateCall, POST /channels) ----
\* the engine accepts the originate exactly when the endpoint is reachable
OriginateSucceeds(e) == reachable[e]
originateCall(o, e) == [o EXCEPT ![e] = @ + 1]

\* the record is removed; `deleted` remembers that a delete, not the TTL, removed it
DeletePending(e) ==
  /\ kv' = deletePendingOriginate(kv, e)
  /\ deleted' = [deleted EXCEPT ![e] = @ \/ getPendingOriginate(kv, e, now) # Null]

\* ---- the endpoint registers with the engine and stays registered ----
Register(e) ==
  /\ ~reachable[e]
  /\ reachable' = [reachable EXCEPT ![e] = TRUE]
  /\ ready' = [ready EXCEPT ![e] = @ \/ getPendingOriginate(kv, e, now) # Null]
  /\ UNCHANGED <<auxVars, appArgs, ended, sweepVars, cred, now, slow, kv, pg, pushTokens, callVars, routePc, bridges, hangups,
                 originates, pushes, timer, endLog, esc, poll, nextPoll, deleted>>

\* ---- EndpointStateChange handler (index.ts 235-304) ----
\* connectAriEvents calls the handler without awaiting it: handlers overlap
EscIdle == [pc |-> "idle"]

\* the handler without its check of the reported state (the draft part_003 102-139)
EscPendingAnyState(store, e, st, t) == getPendingOriginate(store, e, t)
\* the pending record the handler acts on, or Null when it returns early
EscPending(store, e, st, t) ==
  IF st \in {"offline", "unknown"} THEN Null ELSE getPendingOriginate(store, e, t)

\* a new handler or poller tick takes the lowest free slot
FreeSlot(procs, h) == Free(procs[h]) /\ \A g \in DOMAIN procs : g < h => ~Free(procs[g])

\* the event arrives and the handler reads the record (index.ts 260-283)
EndpointStateChange(h, e, st) ==
  /\ FreeSlot(esc, h)
  /\ esc' = [esc EXCEPT ![h] =
               IF EscPending(kv, e, st, now) = Null THEN EscIdle
               ELSE [pc |-> "originate", e |-> e, state |-> st,
                     pending |-> EscPending(kv, e, st, now)]]
  /\ UNCHANGED <<auxVars, appArgs, ended, sweepVars, cred, now, slow, kv, pg, pushTokens, callVars, routePc, engineVars, pushes,
                 timer, endLog, poll, nextPoll, deleted, ready>>

EscOriginate(h) ==
  /\ esc[h].pc = "originate"
  /\ \/ /\ OriginateSucceeds(esc[h].e)
        /\ originates[esc[h].e] < MaxOriginates
        /\ originates' = originateCall(originates, esc[h].e)
        /\ appArgs' = [appArgs EXCEPT ![esc[h].e] = @ \cup {esc[h].pending.bridgeId}]
        /\ esc' = [esc EXCEPT ![h].pc = "delete"]
     \/ /\ ~OriginateSucceeds(esc[h].e)
        /\ esc' = [esc EXCEPT ![h] = EscIdle]
        /\ UNCHANGED <<originates, appArgs>>
  /\ UNCHANGED <<auxVars, ended, sweepVars, cred, now, slow, kv, pg, pushTokens, callVars, routePc, bridges, hangups,
                 reachable, pushes, timer, endLog, poll, nextPoll, deleted, ready>>

EscDelete(h) ==
  /\ esc[h].pc = "delete"
  /\ esc' = [esc EXCEPT ![h] = EscIdle]
  /\ \/ DeletePending(esc[h].e)
     \/ UNCHANGED <<kv, deleted>>
  /\ UNCHANGED <<auxVars, appArgs, ended, sweepVars, cred, now, slow, pg, pushTokens, callVars, routePc, engineVars, pushes, timer,
                 endLog, poll, nextPoll, ready>>

\* ---- checkPendingOriginate, every 2 s (index.ts 541-566) ----
PollIdle == [pc |-> "idle"]
\* the tick left through the outer catch (index.ts 560-562)
PollFailed == [pc |-> "failed"]

\* the endpoints a tick that lists now should serve: listed, reachable, record live
ReadyNow == {e \in listTempSipEndpoints(pg) :
               reachable[e] /\ KvGet(kv, "originate", e, now) # Null}

\* the tick gives up on the endpoints left (not the code's inner catch)
PollAbandon(p, todo) == PollFailed
\* the tick goes on with the endpoints left, or ends
PollContinue(p, todo) ==
  IF todo = {} THEN PollIdle
  ELSE [pc |-> "get", todo |-> todo, served |-> poll[p].served]

\* setInterval fires; listTempSipEndpoints resolves or throws
PollStart(p) ==
  /\ FreeSlot(poll, p)
  /\ now = nextPoll
  /\ nextPoll' = nextPoll + PollPeriodSec
  /\ \/ poll' = [poll EXCEPT ![p] =
                   IF listTempSipEndpoints(pg) = {} THEN PollIdle
                   ELSE [pc |-> "get", todo |-> listTempSipEndpoints(pg),
                         served |-> ReadyNow]]
     \/ poll' = [poll EXCEPT ![p] = PollFailed]
  /\ UNCHANGED <<auxVars, appArgs, ended, sweepVars, cred, now, slow, kv, pg, pushTokens, callVars, routePc, engineVars, pushes,
                 timer, endLog, esc, deleted, ready>>

\* getPendingOriginate for the next endpoint resolves or throws
PollGet(p) ==
  /\ poll[p].pc = "get"
  /\ \/ \E e \in poll[p].todo :
          poll' = [poll EXCEPT ![p] =
                    IF getPendingOriginate(kv, e, now) = Null
                    THEN PollContinue(p, poll[p].todo \ {e})
                    ELSE [pc |-> "originate", todo |-> poll[p].todo \ {e}, e |-> e,
                          served |-> poll[p].served,
                          pending |-> getPendingOriginate(kv, e, now)]]
     \/ poll' = [poll EXCEPT ![p] = PollFailed]
  /\ UNCHANGED <<auxVars, appArgs, ended, sweepVars, cred, now, slow, kv, pg, pushTokens, callVars, routePc, engineVars, pushes,
                 timer, endLog, esc, nextPoll, deleted, ready>>

PollOriginate(p) ==
  /\ poll[p].pc = "originate"
  /\ \/ /\ OriginateSucceeds(poll[p].e)
        /\ originates[poll[p].e] < MaxOriginates
        /\ originates' = originateCall(originates, poll[p].e)
        /\ appArgs' = [appArgs EXCEPT ![poll[p].e] = @ \cup {poll[p].pending.bridgeId}]
        /\ poll' = [poll EXCEPT ![p] = [pc |-> "delete", todo |-> poll[p].todo,
                                        e |-> poll[p].e, served |-> poll[p].served]]
     \/ /\ ~OriginateSucceeds(poll[p].e)
        /\ poll' = [poll EXCEPT ![p] = PollContinue(p, poll[p].todo)]
        /\ UNCHANGED <<originates, appArgs>>
  /\ UNCHANGED <<auxVars, ended, sweepVars, cred, now, slow, kv, pg, pushTokens, callVars, routePc, bridges, hangups,
                 reachable, pushes, timer, endLog, esc, nextPoll, deleted, ready>>

PollDelete(p) ==
  /\ poll[p].pc = "delete"
  /\ poll' = [poll EXCEPT ![p] = PollContinue(p, poll[p].todo)]
  /\ \/ DeletePending(poll[p].e)
     \/ UNCHANGED <<kv, deleted>>
  /\ UNCHANGED <<auxVars, appArgs, ended, sweepVars, cred, now, slow, pg, pushTokens, callVars, routePc, engineVars, pushes, timer,
                 endLog, esc, nextPoll, ready>>

\* a second passes while the poller is scheduled: a tick that is due starts first
TickPolling ==
  /\ nextPoll > now
  /\ Tick

\* ---- POST /calls/outgoing-credentials (part_001 142-175) ----
\* a throw of an awaited call ends the request with an error
OutgoingCredentials(t) ==
  /\ \/ /\ outPc[t] = "idle"
        /\ sql[t] = 0
        /\ now <= MaxStart
        /\ \/ /\ pg' = createTempSipEndpoint(pg, OutEndpoint(t))
              /\ outPc' = [outPc EXCEPT ![t] = "setOutgoingToken"]
           \/ /\ outPc' = [outPc EXCEPT ![t] = "done"]
              /\ \E n \in 0..2 : pg' = createTempSipEndpointUpTo(pg, OutEndpoint(t), n)
        /\ UNCHANGED kv
     \/ /\ outPc[t] = "setOutgoingToken"
        /\ \/ /\ kv' = setOutgoingToken(kv, t, [endpointId |-> OutEndpoint(t)],
                                        CallTokenTtlSec, now)
              /\ outPc' = [outPc EXCEPT ![t] = "setEndpointSession"]
           \/ /\ outPc' = [outPc EXCEPT ![t] = "done"]
              /\ UNCHANGED kv
        /\ UNCHANGED pg
     \/ /\ outPc[t] = "setEndpointSession"
        /\ outPc' = [outPc EXCEPT ![t] = "done"]
        /\ \/ kv' = setEndpointSession(kv, OutEndpoint(t),
                                       [type |-> "outgoing", token |-> t],
                                       CallTokenTtlSec, now)
           \/ UNCHANGED kv
        /\ UNCHANGED pg
  /\ UNCHANGED <<auxVars, appArgs, ended, now, slow, pushTokens, callVars, routePc, engineVars, pushes, timer,
                 endLog, originateVars, jan, sweeps, cred>>

\* ---- cleanupStaleEndpoints, every 60 s (index.ts 501-535) ----
JanIdle == [pc |-> "idle"]
\* the sweep left through the outer catch (index.ts 530-532)
JanFailed == [pc |-> "failed"]

\* the creation of endpoint e is over: no request is about to write its records
Settled(e) ==
  /\ \A c \in Calls : e = TmpEndpoint(c) => pc[c] # "idle" /\ ~InFlight(c)
  /\ \A t \in RouteTokens : e = OutEndpoint(t) => routePc[t] = "done"
  /\ \A t \in OutgoingTokens : e = OutEndpoint(t) => outPc[t] = "done"

\* the listed endpoints whose endpoint: record has expired, or was never written by
\* a request that is over
StaleNow == {e \in listTempSipEndpoints(pg) :
               Settled(e) /\ KvGet(kv, "endpoint", e, now) = Null}

\* the session's token record as the sweep looks it up: call:<token> for either kind
JanitorToken(store, session, t) == getCallToken(store, session.token, t)

\* the sweep goes on with the endpoints left, or ends
JanContinue(todo) ==
  IF todo = {} THEN JanIdle
  ELSE [pc |-> "session", todo |-> todo, stale |-> jan.stale]

\* setInterval fires, at any instant of the ring; listTempSipEndpoints resolves or
\* throws
JanitorStart ==
  /\ Free(jan)
  /\ sweeps < MaxSweeps
  /\ sweeps' = sweeps + 1
  /\ \/ jan' = IF listTempSipEndpoints(pg) = {} THEN JanIdle
               ELSE [pc |-> "session", todo |-> listTempSipEndpoints(pg),
                     stale |-> StaleNow]
     \/ jan' = JanFailed
  /\ UNCHANGED <<auxVars, appArgs, ended, now, slow, kv, pg, pushTokens, callVars, routePc, engineVars, pushes,
                 timer, endLog, originateVars, outPc, cred>>

\* getEndpointSession for the next endpoint resolves or throws
JanitorSession ==
  /\ jan.pc = "session"
  /\ \/ \E e \in jan.todo :
          LET session == getEndpointSession(kv, e, now) IN
            jan' = IF session = Null
                   THEN [pc |-> "delete", todo |-> jan.todo \ {e}, e |-> e,
                         stale |-> jan.stale]
                   ELSE [pc |-> "token", todo |-> jan.todo \ {e}, e |-> e,
                         session |-> session, stale |-> jan.stale]
     \/ jan' = JanFailed
  /\ UNCHANGED <<auxVars, appArgs, ended, now, slow, kv, pg, pushTokens, callVars, routePc, engineVars, pushes,
                 timer, endLog, originateVars, outPc, sweeps, cred>>

\* getCallToken(session.token) resolves or throws
JanitorGetToken ==
  /\ jan.pc = "token"
  /\ \/ jan' = IF JanitorToken(kv, jan.session, now) = Null
               THEN [pc |-> "delete", todo |-> jan.todo, e |-> jan.e,
                     stale |-> jan.stale]
               ELSE JanContinue(jan.todo)
     \/ jan' = JanFailed
  /\ UNCHANGED <<auxVars, appArgs, ended, now, slow, kv, pg, pushTokens, callVars, routePc, engineVars, pushes,
                 timer, endLog, originateVars, outPc, sweeps, cred>>

\* deleteTempSipEndpoint resolves, or throws into the inner catch; the loop goes on
JanitorDelete ==
  /\ jan.pc = "delete"
  /\ sql["janitor"] = 0
  /\ jan' = JanContinue(jan.todo)
  /\ \/ pg' = deleteTempSipEndpoint(pg, jan.e)
     \/ \E n \in 0..2 : pg' = deleteTempSipEndpointUpTo(pg, jan.e, n)
  /\ UNCHANGED <<auxVars, appArgs, ended, now, slow, kv, pushTokens, callVars, routePc, engineVars, pushes,
                 timer, endLog, originateVars, outPc, sweeps, cred>>

\* ---- GET /calls/credentials (part_001 93-137) ----
\* the request reads call:<callToken>; for a known token it answers with the
\* credentials and leaves a task running
GetCredentials(c) ==
  /\ cred[c].pc = "idle"
  /\ cred' = [cred EXCEPT ![c].pc =
                IF getCallToken(kv, c, now) = Null THEN "notFound" ELSE "createBridge"]
  /\ UNCHANGED <<auxVars, appArgs, ended, now, slow, kv, pg, pushTokens, callVars, routePc, engineVars, pushes,
                 timer, endLog, originateVars, sweepVars>>

\* the task: createBridge, addChannelToBridge, setPendingOriginate; a throw ends it
CredentialsTask(c) ==
  /\ \/ /\ cred[c].pc = "createBridge"
        /\ \/ /\ bridges' = Append(bridges, {})
              /\ cred' = [cred EXCEPT ![c] = [pc |-> "addChannel",
                                              bridge |-> Len(bridges) + 1]]
           \/ /\ cred' = [cred EXCEPT ![c].pc = "failed"]
              /\ UNCHANGED bridges
        /\ UNCHANGED <<kv, ready>>
     \/ /\ cred[c].pc = "addChannel"
        /\ \/ /\ bridges' = addChannelToBridge(bridges, cred[c].bridge, c)
              /\ cred' = [cred EXCEPT ![c].pc = "setPendingOriginate"]
           \/ /\ cred' = [cred EXCEPT ![c].pc = "failed"]
              /\ UNCHANGED bridges
        /\ UNCHANGED <<kv, ready>>
     \/ /\ cred[c].pc = "setPendingOriginate"
        /\ \/ /\ kv' = setPendingOriginate(kv, TmpEndpoint(c),
                                           [bridgeId |-> cred[c].bridge, channelId |-> c],
                                           RingTimeoutSec, now)
              /\ ready' = [ready EXCEPT ![TmpEndpoint(c)] = @ \/ reachable[TmpEndpoint(c)]]
              /\ cred' = [cred EXCEPT ![c].pc = "done"]
           \/ /\ cred' = [cred EXCEPT ![c].pc = "failed"]
              /\ UNCHANGED <<kv, ready>>
        /\ UNCHANGED bridges
  /\ UNCHANGED <<auxVars, appArgs, ended, now, slow, pg, pushTokens, callVars, routePc, hangups, originates,
                 reachable, pushes, timer, endLog, esc, poll, nextPoll, deleted,
                 sweepVars>>

\* ---- createTempSipEndpoint / deleteTempSipEndpoint, statement by statement ----
\* the i-th INSERT ... ON CONFLICT (id) DO UPDATE of createTempSipEndpoint
InsertStatement(rows, id, i) == [rows EXCEPT ![InsertOrder[i]] = @ \cup {id}]
\* the i-th DELETE ... WHERE id = $1 of deleteTempSipEndpoint
DeleteStatement(rows, id, i) == [rows EXCEPT ![DeleteOrder[i]] = @ \ {id}]

\* one statement of the caller cl has resolved; after the third the call returns
StatementDone(cl) == [sql EXCEPT ![cl] = IF @ = 2 THEN 0 ELSE @ + 1]
\* a statement of the caller cl has thrown; the call is over
StatementThrown(cl) == [sql EXCEPT ![cl] = 0]

\* POST /calls/outgoing-credentials inside its createTempSipEndpoint (part_001 148-154)
OutgoingCreateStatement(t) ==
  /\ outPc[t] = "idle"
  /\ sql[t] > 0 \/ now <= MaxStart
  /\ \/ /\ pg' = InsertStatement(pg, OutEndpoint(t), sql[t] + 1)
        /\ sql' = StatementDone(t)
        /\ outPc' = IF sql[t] = 2 THEN [outPc EXCEPT ![t] = "setOutgoingToken"] ELSE outPc
     \/ /\ sql' = StatementThrown(t)
        /\ outPc' = [outPc EXCEPT ![t] = "done"]
        /\ UNCHANGED pg
  /\ UNCHANGED <<ws, clean, realtime, last, crashes, legVars, appArgs, ended, now, slow, kv, pushTokens, callVars, routePc, engineVars,
                 pushes, timer, endLog, originateVars, jan, sweeps, cred>>

\* the sweep inside its deleteTempSipEndpoint (index.ts 511, 523); a throw goes to
\* the inner catch and the loop goes on
JanitorDeleteStatement ==
  /\ jan.pc = "delete"
  /\ \/ /\ pg' = DeleteStatement(pg, jan.e, sql["janitor"] + 1)
        /\ sql' = StatementDone("janitor")
        /\ jan' = IF sql["janitor"] = 2 THEN JanContinue(jan.todo) ELSE jan
     \/ /\ sql' = StatementThrown("janitor")
        /\ jan' = JanContinue(jan.todo)
        /\ UNCHANGED pg
  /\ UNCHANGED <<ws, clean, realtime, last, crashes, legVars, appArgs, ended, now, slow, kv, pushTokens, callVars, routePc, engineVars,
                 pushes, timer, endLog, originateVars, outPc, sweeps, cred>>

\* ---- POST /calls/outgoing-cleanup (part_001 180-202) ----
\* the request reads outgoing:<outgoingToken>: 404 for no record, else it goes on to
\* deleteTempSipEndpoint(payload.endpointId); a throw of the read ends the request
OutgoingCleanup(r, t) ==
  /\ clean[r].pc = "idle"
  /\ now < Horizon
  /\ LET payload == getOutgoingToken(kv, t, now) IN
       \/ clean' = [clean EXCEPT ![r] =
                      IF payload = Null THEN [pc |-> "notFound", token |-> t]
                      ELSE [pc |-> "delete", token |-> t, e |-> payload.endpointId]]
       \/ clean' = [clean EXCEPT ![r] = [pc |-> "error", token |-> t]]
  /\ UNCHANGED <<ws, sql, realtime, last, crashes, legVars, appArgs, ended, now, slow, kv, pg, pushTokens, callVars, routePc, engineVars,
                 pushes, timer, endLog, originateVars, sweepVars, cred>>

\* one statement of the request's deleteTempSipEndpoint; the route catches a throw
\* and answers {ok: true} either way; no Redis record is deleted
CleanupStatement(r) ==
  /\ clean[r].pc = "delete"
  /\ \/ /\ pg' = DeleteStatement(pg, clean[r].e, sql[r] + 1)
        /\ sql' = StatementDone(r)
        /\ clean' = IF sql[r] = 2 THEN [clean EXCEPT ![r].pc = "ok"] ELSE clean
     \/ /\ sql' = StatementThrown(r)
        /\ clean' = [clean EXCEPT ![r].pc = "ok"]
        /\ UNCHANGED pg
  /\ UNCHANGED <<ws, realtime, last, crashes, legVars, appArgs, ended, now, slow, kv, pushTokens, callVars, routePc,
                 engineVars, pushes, timer, endLog, originateVars, sweepVars, cred>>

\* ---- the realtime tables with their columns (store/postgres 416-462) ----
SqlIds == {"tmp_1", "out_2"}
\* parameter records of createTempSipEndpoint
EndpointParams ==
  [id : SqlIds, username : {"u1", "u2"}, password : {"pw1", "pw2"},
   context : {"intercom", "door"}, templateId : {"tpl_client"}]

\* INSERT of a row without a conflict clause (not the code's statement)
InsertPlain(table, row, cols) == table \cup {row}
\* INSERT ... VALUES row ON CONFLICT (id) DO UPDATE SET cols = EXCLUDED.cols
Upsert(table, row, cols) ==
  IF \E r \in table : r.id = row.id
  THEN {IF r.id = row.id
        THEN [col \in DOMAIN r |-> IF col \in cols THEN row[col] ELSE r[col]]
        ELSE r : r \in table}
  ELSE table \cup {row}

\* DELETE without its WHERE clause (not the code's statement)
DeleteEveryRow(table, id) == {}
\* DELETE FROM table WHERE id = $1
DeleteWhereId(table, id) == {r \in table : r.id # id}

AorRow(p) == [id |-> p.id, max_contacts |-> 1]
AuthRow(p) ==
  [id |-> p.id, auth_type |-> "userpass", username |-> p.username,
   password |-> p.password]
EndpointRow(p) ==
  [id |-> p.id, transport |-> "transport-udp", aors |-> p.id, auth |-> p.id,
   context |-> p.context, templates |-> p.templateId, disallow |-> "all",
   allow |-> "ulaw,alaw,h264", direct_media |-> "no", force_rport |-> "yes",
   rewrite_contact |-> "yes", rtp_symmetric |-> "yes"]

\* the first n statements of createTempSipEndpoint(p)
createTempSipEndpointSql(tables, p, n) ==
  [tbl \in DOMAIN tables |->
     IF tbl = "aors" /\ n >= 1 THEN Upsert(tables[tbl], AorRow(p), {"max_contacts"})
     ELSE IF tbl = "auths" /\ n >= 2
       THEN Upsert(tables[tbl], AuthRow(p), {"username", "password"})
     ELSE IF tbl = "endpoints" /\ n >= 3
       THEN Upsert(tables[tbl], EndpointRow(p), {"context", "templates", "allow"})
     ELSE tables[tbl]]

\* the first n statements of deleteTempSipEndpoint(id)
deleteTempSipEndpointSql(tables, id, n) ==
  [tbl \in DOMAIN tables |->
     IF \E i \in 1..n : DeleteOrder[i] = tbl THEN DeleteWhereId(tables[tbl], id)
     ELSE tables[tbl]]

\* some table holds a row with this id
HasRows(tables, id) == \E tbl \in DOMAIN tables : \E r \in tables[tbl] : r.id = id

tableUnchanged ==
  <<ws, sql, clean, crashes, legVars, appArgs, ended, now, slow, kv, pg, pushTokens, callVars, routePc, engineVars,
    pushes, timer, endLog, originateVars, sweepVars, cred>>

\* a call of createTempSipEndpoint(p): it resolves, or its statement n + 1 throws
CreateCall(p) ==
  /\ \/ /\ realtime' = createTempSipEndpointSql(realtime, p, 3)
        /\ last' = [op |-> "create", p |-> p, hadRows |-> HasRows(realtime, p.id)]
     \/ \E n \in 0..2 :
          /\ realtime' = createTempSipEndpointSql(realtime, p, n)
          /\ last' = [op |-> "createThrew", p |-> p]
  /\ UNCHANGED tableUnchanged

\* a call of deleteTempSipEndpoint(id): it resolves, or its statement n + 1 throws
DeleteCall(id) ==
  /\ \/ /\ realtime' = deleteTempSipEndpointSql(realtime, id, 3)
        /\ last' = [op |-> "delete", id |-> id, hadRows |-> HasRows(realtime, id)]
     \/ \E n \in 0..2 :
          /\ realtime' = deleteTempSipEndpointSql(realtime, id, n)
          /\ last' = [op |-> "deleteThrew", id |-> id]
  /\ UNCHANGED tableUnchanged

\* ---- the process dies and is started again ----
\* Everything the process held in memory is gone: the handlers and requests that
\* were between two awaits, the setTimeout of every ring (index.ts 457-479) and the
\* running sweep and poller ticks; setInterval starts again (index.ts 535, 566).
\* Redis, the realtime tables and the engine keep what they have.
ProcessExit ==
  /\ crashes < MaxCrashes
  /\ crashes' = crashes + 1
  /\ pc' = [c \in Calls |-> IF InFlight(c) THEN "lost" ELSE pc[c]]
  /\ timer' = [c \in Calls |->
                 IF timer[c].st = "armed" THEN [timer[c] EXCEPT !.st = "lost"]
                 ELSE timer[c]]
  /\ routePc' = [t \in RouteTokens |-> IF routePc[t] = "idle" THEN "idle" ELSE "done"]
  /\ outPc' = [t \in OutgoingTokens |-> IF outPc[t] = "idle" THEN "idle" ELSE "done"]
  /\ cred' = [c \in Calls |->
                IF cred[c].pc \in {"createBridge", "addChannel", "setPendingOriginate"}
                THEN [cred[c] EXCEPT !.pc = "failed"] ELSE cred[c]]
  /\ clean' = [r \in CleanupRequests |->
                 IF clean[r].pc = "delete" THEN [pc |-> "error", token |-> clean[r].token]
                 ELSE clean[r]]
  /\ sql' = [cl \in SqlClients |-> 0]
  /\ esc' = [h \in EscHandlers |-> EscIdle]
  /\ poll' = [p \in Pollers |-> PollIdle]
  /\ jan' = JanIdle
  /\ nextPoll' = now + PollPeriodSec
  /\ leg' = IF leg.pc \in {"idle", "done"} THEN leg ELSE [leg EXCEPT !.pc = "done"]
  /\ UNCHANGED <<ws, realtime, last, badLog, appArgs, ended, now, slow, kv, pg, pushTokens,
                 bridgeOf, failedAt, engineVars, pushes, endLog, deleted, ready, sweeps>>

\* the process dies for a reason of its own
Crash == ProcessExit /\ UNCHANGED unhandled

\* the event arrives and getPendingOriginate throws (index.ts 273-275): the await is in
\* no try block, the promise of the async handler rejects, and connectAriEvents, which
\* does not await onEvent (ari/client 54-61), catches nothing.  What the runtime does
\* with an unhandled rejection is its choice: it warns and goes on, or the process exits.
EndpointStateChangeThrows(h, e) ==
  /\ FreeSlot(esc, h)
  /\ unhandled < MaxRejections
  /\ unhandled' = unhandled + 1
  /\ \/ UNCHANGED <<sql, clean, realtime, last, crashes, ws, leg, badLog, appArgs, ended,
                     sweepVars, cred, now, slow, kv, pg, pushTokens, callVars, routePc,
                     engineVars, pushes, timer, endLog, originateVars>>
     \/ ProcessExit

\* ---- connectAriEvents (ari/client 37-81) ----
Min(a, b) == IF a <= b THEN a ELSE b

\* the delay without its cap (not the code's expression)
delayMsUncapped(attempts) == 1000 * 2 ^ Min(attempts, 5)
\* Math.min(30000, 1000 * 2 ** Math.min(attempts, 5))
delayMs(attempts) == Min(30000, 1000 * 2 ^ Min(attempts, 5))

\* the counter left as it is on "open" (not the code's handler)
attemptsKept(attempts) == attempts
\* ws.on("open"): attempts = 0
attemptsOnOpen(attempts) == 0

wsUnchanged ==
  <<sql, clean, realtime, last, crashes, legVars, appArgs, ended, now, slow, kv, pg, pushTokens, callVars,
    routePc, engineVars, pushes, timer, endLog, originateVars, sweepVars, cred>>

\* the socket that connect() made opens
WsOpen ==
  /\ ws.sock = "connecting"
  /\ ws' = [ws EXCEPT !.sock = "open", !.attempts = attemptsOnOpen(@), !.row = 0]
  /\ UNCHANGED wsUnchanged

\* the socket closes, after an open or after a failed connection attempt: the
\* handler computes the delay from attempts, counts the attempt and schedules connect
WsClose ==
  /\ ws.sock \in {"connecting", "open"}
  /\ ws.closes < MaxCloses
  /\ ws' = [ws EXCEPT !.sock = "closed", !.delayMs = delayMs(ws.attempts),
                      !.attempts = @ + 1, !.pending = @ + 1,
                      !.row = @ + 1, !.closes = @ + 1, !.scheduled = @ + 1]
  /\ UNCHANGED wsUnchanged

\* setTimeout(connect, delayMs) fires: connect() makes the next socket
WsReconnect ==
  /\ ws.pending > 0
  /\ ws' = [ws EXCEPT !.pending = @ - 1, !.sock = "connecting"]
  /\ UNCHANGED wsUnchanged

\* ---- StasisStart of an outbound leg, args ["outgoing", bridgeId] (index.ts 315-372) ----
legUnchanged ==
  <<sql, clean, realtime, last, crashes, ws, badLog, unhandled, appArgs, ended, now, slow, kv, pg,
    pushTokens, callVars, routePc, hangups, originates, reachable, pushes, timer, endLog, originateVars,
    sweepVars, cred>>

\* where the handler goes when getBridge or answerChannel throws, were the outer catch
\* to take it (not the code's nesting)
AfterInspectFailureRetries == "retry"
\* getBridge and answerChannel throw into the inner catch: the handler warns and returns
AfterInspectFailure == "done"

\* the engine starts the leg of an originate and reports it with the originate's appArgs
LegStasisStart(e) ==
  /\ leg.pc = "idle"
  /\ \E b \in appArgs[e] : leg' = [LegIdle EXCEPT !.pc = "add", !.bridge = b]
  /\ UNCHANGED <<legUnchanged, bridges>>

\* the first addChannelToBridge resolves, or throws into the outer catch
LegAdd ==
  /\ leg.pc = "add"
  /\ \/ /\ bridges' = addChannelToBridge(bridges, leg.bridge, LegChannel)
        /\ leg' = [leg EXCEPT !.pc = "getBridge", !.adds = @ + 1, !.added = "first"]
     \/ /\ leg' = [leg EXCEPT !.pc = "retry", !.adds = @ + 1]
        /\ UNCHANGED bridges
  /\ UNCHANGED legUnchanged

\* getBridge resolves with the members of the bridge, or throws
LegGetBridge ==
  /\ leg.pc = "getBridge"
  /\ \/ IF bridges[leg.bridge] \ {LegChannel} = {}
        THEN leg' = [leg EXCEPT !.pc = "done", !.inspected = TRUE]
        ELSE \E ch \in bridges[leg.bridge] \ {LegChannel} :
               leg' = [leg EXCEPT !.pc = "answer", !.inspected = TRUE, !.answered = ch]
     \/ leg' = [leg EXCEPT !.pc = AfterInspectFailure, !.inspected = TRUE]
  /\ UNCHANGED <<legUnchanged, bridges>>

\* answerChannel of the doorphone channel resolves, or throws and is logged
LegAnswer ==
  /\ leg.pc = "answer"
  /\ \/ leg' = [leg EXCEPT !.pc = "done"]
     \/ leg' = [leg EXCEPT !.pc = AfterInspectFailure]
  /\ UNCHANGED <<legUnchanged, bridges>>

\* the outer catch: addChannelToBridge once more, then only a log line
LegRetry ==
  /\ leg.pc = "retry"
  /\ \/ /\ bridges' = addChannelToBridge(bridges, leg.bridge, LegChannel)
        /\ leg' = [leg EXCEPT !.pc = "done", !.adds = @ + 1,
                              !.added = IF @ = "no" THEN "retry" ELSE @]
     \/ /\ leg' = [leg EXCEPT !.pc = "done", !.adds = @ + 1]
        /\ UNCHANGED bridges
  /\ UNCHANGED legUnchanged

CreationStep(c) ==
  \/ StasisStart(c) \/ CreateEndpoint(c) \/ SetCallToken(c)
  \/ SetEndpointSession(c) \/ SetChannelSession(c) \/ CreateBridge(c)
  \/ AddChannelToBridge(c) \/ SetPendingOriginate(c) \/ ListPushTokens(c)
  \/ SendPush(c)

Next ==
  \/ \E c \in Rings : CreationStep(c) \/ RingTimeout(c)
  \/ \E t \in Rings : EndCallByToken(t)
  \/ \E t \in RouteTokens : RouteCredentials(t)
  \/ Tick

Spec == Init /\ [][Next]_vars

\* the registration/originate race: creation step, event handlers, poller
OriginateNext ==
  \/ \E c \in Rings : CreationStep(c) \/ RingTimeout(c)
  \/ \E e \in RingEndpoints : Register(e)
  \/ \E h \in EscHandlers, e \in RingEndpoints, st \in EndpointStates :
       EndpointStateChange(h, e, st)
  \/ \E h \in EscHandlers : EscOriginate(h) \/ EscDelete(h)
  \/ \E p \in Pollers : PollStart(p) \/ PollGet(p) \/ PollOriginate(p) \/ PollDelete(p)
  \/ TickPolling

OriginateSpec == Init /\ [][OriginateNext]_vars

\* the janitor and a ring: creation step and sweeps
SweepNext ==
  \/ \E c \in Rings : CreationStep(c) \/ RingTimeout(c)
  \/ JanitorStart \/ JanitorSession \/ JanitorGetToken \/ JanitorDelete
  \/ Tick

SweepSpec == Init /\ [][SweepNext]_vars

\* the janitor and an outgoing session: outgoing credentials and sweeps
OutgoingNext ==
  \/ \E t \in OutgoingTokens : OutgoingCredentials(t)
  \/ JanitorStart \/ JanitorSession \/ JanitorGetToken \/ JanitorDelete
  \/ Tick

OutgoingSpec == Init /\ [][OutgoingNext]_vars

\* the ends of a ring: end/reject route, ring timer, StasisEnd
TerminalNext ==
  \/ \E c \in Rings : CreationStep(c) \/ RingTimeout(c)
  \/ \E c \in Rings : EndCallByToken(c) \/ StasisEnd(c)
  \/ Tick

TerminalSpec == Init /\ [][TerminalNext]_vars

\* the end route with its malformed requests, beside the ends of a ring
EndNext ==
  \/ \E c \in Rings : CreationStep(c) \/ RingTimeout(c)
  \/ \E c \in Rings : EndCallByToken(c)
  \/ EndMissingToken
  \/ Tick

EndSpec == Init /\ [][EndNext]_vars

\* the credentials route: creation step and GET /calls/credentials
CredentialsNext ==
  \/ \E c \in Rings : CreationStep(c) \/ RingTimeout(c)
  \/ \E c \in Rings : GetCredentials(c) \/ CredentialsTask(c)
  \/ Tick

CredentialsSpec == Init /\ [][CredentialsNext]_vars

\* the realtime tables: an outgoing session, the sweep and outgoing-cleanup, with
\* createTempSipEndpoint and deleteTempSipEndpoint taken statement by statement
RealtimeNext ==
  \/ \E t \in OutgoingTokens : OutgoingCredentials(t) \/ OutgoingCreateStatement(t)
  \/ JanitorStart \/ JanitorSession \/ JanitorGetToken
  \/ JanitorDelete \/ JanitorDeleteStatement
  \/ \E r \in CleanupRequests, t \in OutgoingTokens : OutgoingCleanup(r, t)
  \/ \E r \in CleanupRequests : CleanupStatement(r)
  \/ Tick

RealtimeSpec == Init /\ [][RealtimeNext]_vars

\* the two functions of the realtime store, called in any order with any parameters
TablesNext ==
  \/ \E p \in EndpointParams : CreateCall(p)
  \/ \E id \in SqlIds : DeleteCall(id)

TablesSpec == Init /\ [][TablesNext]_vars

\* two Calls: CH2 is set up, as far as it gets before CH1 rings and with none of
\* its dependencies failing, and stays; CH1 then goes through its creation step and
\* its ring timer, and either is ended by request or its endpoint registers and an
\* EndpointStateChange handler originates to it
\* an end request for a ring whose endpoint has not registered
EndBeforeRegister(c) == EndCallByToken(c) /\ ~reachable[TmpEndpoint(c)]
\* the endpoint of a ring nobody has asked to end registers
RegisterBeforeEnd(c) == Register(TmpEndpoint(c)) /\ endLog[c] = <<>>
\* the engine reports a state of a registered endpoint
EventAfterRegister(h, c, st) ==
  EndpointStateChange(h, TmpEndpoint(c), st) /\ reachable[TmpEndpoint(c)]
\* a step of the creation step of c, none of its calls failing, before ring a arrives
CreationStepBefore(c, a) == CreationStep(c) /\ failedAt'[c] = "" /\ pc[a] = "idle"

PairNext ==
  \/ CreationStep("CH1") \/ RingTimeout("CH1")
  \/ EndBeforeRegister("CH1")
  \/ RegisterBeforeEnd("CH1")
  \/ \E st \in EndpointStates : EventAfterRegister(1, "CH1", st)
  \/ EscOriginate(1) \/ EscDelete(1)
  \/ CreationStepBefore("CH2", "CH1")
  \/ RingTimeout("CH2")
  \/ Tick

PairSpec == Init /\ [][PairNext]_vars

\* a ring and a crash of the process
CrashNext ==
  \/ \E c \in Rings : CreationStep(c) \/ RingTimeout(c)
  \/ Crash
  \/ Tick

CrashSpec == Init /\ [][CrashNext]_vars

\* the event stream: its socket opens, closes and is reconnected
WsNext == WsOpen \/ WsClose \/ WsReconnect

WsSpec == Init /\ [][WsNext]_vars

\* a step of the creation step of c in which no awaited call fails
CreationStepUnfailed(c) == CreationStep(c) /\ failedAt'[c] = ""
\* POST /calls/credentials as far as the realtime rows: its Redis writes fail
CredentialsRowsOnly(t) == RouteCredentials(t) /\ kv' = kv

\* retries: a ring whose push goes out, a second listed endpoint without a record,
\* the registration, one EndpointStateChange handler and one poller tick at a time
RetryNext ==
  \/ \E c \in Rings : CreationStepUnfailed(c)
  \/ \E e \in RingEndpoints : Register(e)
  \/ \E e \in RingEndpoints, st \in EndpointStates : EndpointStateChange(1, e, st)
  \/ EscOriginate(1) \/ EscDelete(1)
  \/ PollStart(1) \/ PollGet(1) \/ PollOriginate(1) \/ PollDelete(1)
  \/ \E t \in RouteTokens : CredentialsRowsOnly(t)
  \/ TickPolling

\* a push token is registered
RetryInit == Init /\ pushTokens = 1

RetrySpec == RetryInit /\ [][RetryNext]_vars

\* the bridge of a ring: the creation step, GET /calls/credentials, the registration
\* and one EndpointStateChange handler
BridgeNext ==
  \/ \E c \in Rings : CreationStep(c) \/ RingTimeout(c)
  \/ \E c \in Rings : GetCredentials(c) \/ CredentialsTask(c)
  \/ \E e \in RingEndpoints : Register(e)
  \/ \E e \in RingEndpoints, st \in EndpointStates : EndpointStateChange(1, e, st)
  \/ EscOriginate(1) \/ EscDelete(1)
  \/ Tick

BridgeSpec == Init /\ [][BridgeNext]_vars

\* the outbound leg: a ring without failures, the registration, one EndpointStateChange
\* handler and the StasisStart handler of the leg it originates
LegNext ==
  \/ \E c \in Rings : CreationStepUnfailed(c)
  \/ \E e \in RingEndpoints : Register(e)
  \/ \E e \in RingEndpoints, st \in EndpointStates : EndpointStateChange(1, e, st)
  \/ EscOriginate(1) \/ EscDelete(1)
  \/ \E e \in RingEndpoints : LegStasisStart(e)
  \/ LegAdd \/ LegGetBridge \/ LegAnswer \/ LegRetry
  \/ Tick

LegSpec == Init /\ [][LegNext]_vars

\* every writer of Redis records: the creation step, none of whose calls fails, and
\* the two credentials routes
TtlNext ==
  \/ \E c \in Rings : CreationStepUnfailed(c) \/ RingTimeout(c)
  \/ \E t \in RouteTokens : RouteCredentials(t)
  \/ \E t \in OutgoingTokens : OutgoingCredentials(t)
  \/ Tick

TtlSpec == Init /\ [][TtlNext]_vars

\* a ring that ends while its client may still register: the end route, the ring
\* timer, StasisEnd, the registration and one EndpointStateChange handler
AfterEndNext ==
  \/ \E c \in Rings : CreationStepUnfailed(c) \/ RingTimeout(c)
  \/ \E c \in Rings : EndCallByToken(c) \/ StasisEnd(c)
  \/ \E e \in RingEndpoints : Register(e)
  \/ \E e \in RingEndpoints, st \in EndpointStates : EndpointStateChange(1, e, st)
  \/ EscOriginate(1) \/ EscDelete(1)
  \/ Tick

AfterEndSpec == Init /\ [][AfterEndNext]_vars

\* the event handlers with the failures of their reads: the creation step, the
\* registration and one EndpointStateChange handler
HandlerNext ==
  \/ \E c \in Rings : CreationStep(c)
  \/ \E e \in RingEndpoints : Register(e)
  \/ \E e \in RingEndpoints, st \in EndpointStates : EndpointStateChange(1, e, st)
  \/ \E e \in RingEndpoints : EndpointStateChangeThrows(1, e)
  \/ EscOriginate(1) \/ EscDelete(1)
  \/ Tick

HandlerSpec == Init /\ [][HandlerNext]_vars

\* ======================= properties =======================
Live(fam, id) == KvGet(kv, fam, id, now) # Null

\* C1: at most one successful originate is issued per originate:<e> record.  Each
\* ring writes one record for its endpoint, so the count per endpoint is the count
\* per record.
C1_AtMostOneOriginate == \A e \in TmpEndpoints : originates[e] <= 1

\* no handler or poller tick still holds a record of e that it has read
NoAttemptInFlight(e) ==
  /\ \A h \in EscHandlers : esc[h].pc # "idle" => esc[h].e # e
  /\ \A p \in Pollers : poll[p].pc \in {"originate", "delete"} => poll[p].e # e

WritesDone(c) ==
  \/ pc[c] \in {"createBridge", "addChannel", "setPendingOriginate", "listPushTokens",
                "sendPush", "done", "noTokens"}
  \/ pc[c] = "aborted" /\ failedAt[c] \in {"listPushTokens", "sendExpoPush"}

\* call:<t> has exactly one live endpoint: record and one live channel: record with
\* which it is mutually referenced
MutuallyReferenced(t) ==
  LET call == kv.call[t].val IN
    /\ Cardinality({e \in Endpoints :
                      /\ Live("endpoint", e)
                      /\ kv.endpoint[e].val.token = t
                      /\ call.endpointId = e}) = 1
    /\ Cardinality({ch \in Channels :
                      /\ Live("channel", ch)
                      /\ kv.channel[ch].val.callToken = t
                      /\ kv.channel[ch].val.endpointId = call.endpointId
                      /\ call.channelId = ch}) = 1

\* C3 as claimed: every live call:<t> record, whichever route wrote it and also
\* between the writes of the creation step, has its endpoint: and channel: records.
C3_EveryLiveCallIndexed ==
  \A t \in Tokens : Live("call", t) => MutuallyReferenced(t)

\* C3 as amended: every live call:<t> record of a ring whose three index writes
\* have completed has exactly one live endpoint: and one live channel: record
\* mutually referenced with it, also as the records expire.
C3_CompletedCallIndexed ==
  \A c \in Calls : (Live("call", c) /\ WritesDone(c)) => MutuallyReferenced(c)

\* C3 witness: the call: record of a completed creation step in its last second.
C3_Witness ==
  \E c \in Calls : WritesDone(c) /\ Live("call", c) /\ kv.call[c].exp = now + 1

C5_CallRecordLiveWhenTimerFires ==
  \A c \in Calls : timer[c].st = "fired" => timer[c].sawCall

\* C7: after POST /calls/end returned ok for a token, every later request with the
\* token returns 404 and issues no hangup.
C7_SecondEndIsNotFound ==
  \A t \in Calls :
    /\ \A i, j \in 1..Len(endLog[t]) :
         (i < j /\ endLog[t][i] = "ok") => endLog[t][j] = "404"
    /\ hangups[t].end <= 1

\* C8: a ring the client has ended gets exactly one hangup over its whole life,
\* whatever the ring timer and repeated end requests do later.
C8_EndedCallHungUpOnce ==
  \A c \in Calls :
    (\E i \in 1..Len(endLog[c]) : endLog[c][i] = "ok")
      => hangups[c].end + hangups[c].timer = 1

\* C9: when the push of a ring fails, its ring timer is armed all the same, and if
\* nobody ends the ring the doorphone channel has been hung up once the ring timeout
\* is over.
C9_PushFailureKeepsRingTimer ==
  \A c \in Calls :
    (pc[c] = "aborted" /\ failedAt[c] = "sendExpoPush")
      => /\ timer[c].st \in {"armed", "fired"}
         /\ (now = Horizon /\ endLog[c] = <<>>) => hangups[c].timer = 1

\* C10: when create-bridge or add-channel failed, no originate: record is written
\* and no originate is issued, the push has been dispatched when the handler is
\* done, and the ring timer, once fired, has hung up the doorphone channel.
C10_BridgeFailureEndsInTimeout ==
  \A c \in Calls :
    failedAt[c] \in {"createBridge", "addChannelToBridge"}
      => /\ ~Live("originate", TmpEndpoint(c))
         /\ originates[TmpEndpoint(c)] = 0
         /\ pc[c] = "done" => pushes[c] = 1
         /\ timer[c].st = "fired" => hangups[c].timer = 1

\* C11 as claimed: when createBridge failed, no push is dispatched, no originate:
\* record is written and the call: record stays until its TTL.
C11_BridgeFailureSendsNoPush ==
  \A c \in Calls :
    failedAt[c] = "createBridge"
      => /\ pushes[c] = 0
         /\ kv.originate[TmpEndpoint(c)] = NoRec
         /\ now < CallTokenTtlSec => Live("call", c)

\* C11 as amended: when createBridge failed, no originate: record is written, the
\* call: record stays until its TTL, and the handler goes on: once it is done it
\* has dispatched the push.
C11_BridgeFailureKeepsCallRecord ==
  \A c \in Calls :
    failedAt[c] = "createBridge"
      => /\ kv.originate[TmpEndpoint(c)] = NoRec
         /\ bridgeOf[c] = 0
         /\ now < CallTokenTtlSec => Live("call", c)
         /\ pc[c] = "done" => pushes[c] = 1

\* C11 witness: createBridge failed, the push went out and the call: record is live.
C11_Witness ==
  \E c \in Calls : failedAt[c] = "createBridge" /\ pushes[c] = 1 /\ Live("call", c)

\* C12: when createTempSipEndpoint failed, the handler has aborted: no push, no
\* call:, endpoint:, channel: or originate: record, no bridge and no ring timer.
C12_EndpointFailureAborts ==
  \A c \in Calls :
    failedAt[c] = "createTempSipEndpoint"
      => /\ pc[c] = "aborted"
         /\ pushes[c] = 0
         /\ kv.call[c] = NoRec
         /\ kv.endpoint[TmpEndpoint(c)] = NoRec
         /\ kv.channel[c] = NoRec
         /\ kv.originate[TmpEndpoint(c)] = NoRec
         /\ bridgeOf[c] = 0
         /\ \A b \in DOMAIN bridges : c \notin bridges[b]
         /\ timer[c].st = "none"

\* C12 witness: a second after createTempSipEndpoint failed.
C12_Witness ==
  \E c \in Calls : failedAt[c] = "createTempSipEndpoint" /\ now > 0

\* C13: at the step that dispatches the push of a ring, the three rows of its
\* endpoint are written and its call:, endpoint: and channel: records are live and
\* reference each other: a lookup of the token finds the record.
C13_PushAfterIndexWrites ==
  [][\A c \in Calls :
       pushes'[c] > pushes[c]
         => /\ \A tbl \in DOMAIN pg : TmpEndpoint(c) \in pg[tbl]
            /\ getCallToken(kv, c, now) # Null
            /\ MutuallyReferenced(c)]_vars

\* C13 witness: the push of a ring has gone out and its token resolves.
C13_Witness ==
  \E c \in Calls : pushes[c] = 1 /\ getCallToken(kv, c, now) # Null /\ pc[c] = "done"

\* the originate: record of e has been written: it is live, or a handler that
\* originated has deleted it
PendingWritten(e) == Live("originate", e) \/ deleted[e]

\* C14 as claimed: at the step that dispatches the push of a ring, its originate:
\* record has been written, in every execution.
C14_PushAfterPendingOriginate ==
  [][\A c \in Calls :
       pushes'[c] > pushes[c] => PendingWritten(TmpEndpoint(c))]_vars

\* C14 as amended: at the step that dispatches the push of a ring whose bridge
\* set-up did not fail, its originate: record has been written.
C14_PushAfterPendingOriginateIfBridged ==
  [][\A c \in Calls :
       (pushes'[c] > pushes[c] /\ failedAt[c] = "")
         => PendingWritten(TmpEndpoint(c))]_vars

\* C14 witness: the push has gone out after a bridge set-up without failure, and
\* the originate: record is there.
C14_Witness ==
  \E c \in Calls :
    pushes[c] = 1 /\ failedAt[c] = "" /\ PendingWritten(TmpEndpoint(c))

\* the three rows of the endpoint of ring c have been inserted
RowsInserted(c) ==
  pc[c] \notin {"idle", "createEndpoint"} /\ failedAt[c] # "createTempSipEndpoint"

\* C15: in every interleaving of a sweep with the creation step of a ring, the rows
\* of its endpoint are in place while the ring is being set up or its call: record
\* is live.
C15_SweepSparesLiveCall ==
  \A c \in Calls :
    (RowsInserted(c) /\ (InFlight(c) \/ Live("call", c)))
      => \A tbl \in DOMAIN pg : TmpEndpoint(c) \in pg[tbl]

\* the token record a session refers to is absent: call:<token> for kind call,
\* outgoing:<token> for kind outgoing
TokenRecordAbsent(session) ==
  IF session.type = "call" THEN getCallToken(kv, session.token, now) = Null
  ELSE getOutgoingToken(kv, session.token, now) = Null

\* C16: a sweep decides to delete the rows of an endpoint if and only if
\* endpoint:<id> is absent, or it is present and the token record it refers to is
\* absent; an out_ endpoint whose outgoing:<token> record is live is kept.
C16_SweepDeletesIffUnreferenced ==
  [][/\ (jan.pc = "session" /\ (jan').pc \in {"delete", "token"})
          => ((jan').pc = "delete" <=> ~Live("endpoint", (jan').e))
     /\ (jan.pc = "token" /\ jan' # jan /\ (jan').pc # "failed")
          => ((jan').pc = "delete" <=> TokenRecordAbsent(jan.session))]_vars

\* C17: a sweep that completes after it listed an endpoint whose endpoint: record
\* had expired leaves no endpoint, auth or AOR row of that endpoint.
C17_SweepRemovesStaleRows ==
  [][(jan.pc \in {"session", "token", "delete"} /\ (jan').pc = "idle")
       => \A e \in jan.stale : \A tbl \in DOMAIN pg : e \notin pg'[tbl]]_vars

\* ring c went through a terminal transition: the client ended or rejected it, the
\* ring timer hung it up, or the StasisEnd of its channel was handled
Terminated(c) ==
  \/ \E i \in 1..Len(endLog[c]) : endLog[c][i] = "ok"
  \/ hangups[c].timer >= 1
  \/ ended[c]

\* C18: after a terminal transition of a ring, lookups of its call:, channel:,
\* endpoint: and originate: records find nothing.
C18_TerminatedCallUnindexed ==
  \A c \in Calls :
    Terminated(c)
      => /\ ~Live("call", c)
         /\ ~Live("channel", c)
         /\ ~Live("endpoint", TmpEndpoint(c))
         /\ ~Live("originate", TmpEndpoint(c))

\* bridge b exists in the engine: only DELETE /bridges/<b> removes one
BridgeExists(b) == b \in DOMAIN bridges

\* C19: a ring that created a bridge and went through a terminal transition has, by
\* the time all its timers and records are over, no bridge left and its leg hung up.
C19_BridgeDeletedAtExit ==
  \A c \in Calls :
    (bridgeOf[c] # 0 /\ Terminated(c) /\ now = Horizon)
      => /\ ~BridgeExists(bridgeOf[c])
         /\ hangups[c].timer + hangups[c].end >= 1

\* C20: a step of GET /calls/credentials or of what it leaves running creates no
\* bridge, adds no channel, issues no originate and changes no record or row; the
\* bridge in the originate: record of a ring is the one its creation step made.
C20_CredentialsSideEffectFree ==
  /\ [][(cred' # cred)
          => /\ bridges' = bridges
             /\ originates' = originates
             /\ kv' = kv
             /\ pg' = pg]_vars
  /\ [](\A c \in Calls :
          Live("originate", TmpEndpoint(c))
            => kv.originate[TmpEndpoint(c)].val.bridgeId = bridgeOf[c])

\* C21: in every reachable state, between the statements of createTempSipEndpoint
\* and deleteTempSipEndpoint included, and with the creation, the sweep's delete and
\* the deletes of outgoing-cleanup requests running concurrently, every
\* ps_endpoints row with a tmp_/out_ id has a ps_aors row and a ps_auths row with
\* the same id.
C21_EndpointRowHasAorAndAuth ==
  \A id \in listTempSipEndpoints(pg) : id \in pg.aors /\ id \in pg.auths

\* the sweep and a cleanup request are both between two statements of their delete
\* of the same endpoint
C21_Witness ==
  \E r \in CleanupRequests :
    /\ clean[r].pc = "delete" /\ sql[r] >= 1
    /\ jan.pc = "delete" /\ sql["janitor"] >= 1
    /\ jan.e = clean[r].e

\* C22: createTempSipEndpoint is idempotent: in the state a call
\* createTempSipEndpoint(p) has left, whatever the tables held before it, a second
\* call with the same p changes nothing, and each of the three tables holds exactly
\* one row with p.id.
C22_CreateIdempotent ==
  last.op = "create" =>
    /\ createTempSipEndpointSql(realtime, last.p, 3) = realtime
    /\ \A tbl \in DOMAIN realtime :
         Cardinality({r \in realtime[tbl] : r.id = last.p.id}) = 1

\* a call has resolved on tables that already held rows with p.id, written with
\* another password, and rows of another id
C22_Witness ==
  /\ last.op = "create" /\ last.hadRows
  /\ \E r \in realtime.auths : r.id = last.p.id /\ r.password = last.p.password
  /\ \E id \in SqlIds \ {last.p.id} : HasRows(realtime, id)

\* C23: deleteTempSipEndpoint(id) on an id without rows leaves the tables as they
\* are, so a second delete of the same id (the sweep's and outgoing-cleanup's, say)
\* leaves the state the first one left.
C23_DeleteOfMissingIdChangesNothing ==
  /\ \A id \in SqlIds :
       ~HasRows(realtime, id) => deleteTempSipEndpointSql(realtime, id, 3) = realtime
  /\ last.op = "delete" => deleteTempSipEndpointSql(realtime, last.id, 3) = realtime

\* a delete of an id without rows has resolved on tables that hold rows of another id
C23_Witness ==
  /\ last.op = "delete" /\ ~last.hadRows
  /\ \E id \in SqlIds \ {last.id} : id \in {r.id : r \in realtime.endpoints}

\* C25: an outgoing-cleanup request for a token whose outgoing: record is absent
\* answers 404 and changes nothing, and one that arrives after a cleanup of the same
\* token has answered {ok: true} and removed the out_ rows answers 404.  (Stated on
\* the step in which a request reads the token; a request whose read throws is not
\* an answer of the route.)
C25_SecondCleanupIsNotFound ==
  [][\A r \in CleanupRequests :
       (clean[r].pc = "idle" /\ clean'[r].pc \in {"delete", "notFound"}) =>
         /\ KvGet(kv, "outgoing", clean'[r].token, now) = Null =>
              clean'[r].pc = "notFound" /\ pg' = pg /\ kv' = kv
         /\ (\E r2 \in CleanupRequests :
               /\ clean[r2].pc = "ok" /\ clean[r2].token = clean'[r].token
               /\ ~\E tbl \in DOMAIN pg : clean[r2].e \in pg[tbl])
            => clean'[r].pc = "notFound"]_vars

\* what belongs to Call b: its four KV records, its realtime rows, its bridge and
\* the channels in it, the engine requests naming its channel or endpoint, its
\* ring timer and the position of its creation step
CallFootprint(b) ==
  <<kv.call[b], kv.endpoint[TmpEndpoint(b)], kv.channel[b], kv.originate[TmpEndpoint(b)],
    [tbl \in DOMAIN pg |-> TmpEndpoint(b) \in pg[tbl]],
    bridgeOf[b], IF bridgeOf[b] = 0 THEN {} ELSE bridges[bridgeOf[b]],
    hangups[b], originates[TmpEndpoint(b)], timer[b], pc[b]>>

\* a step of an operation on Call a: its creation step, its ring timer, an end
\* request with its token, or an EndpointStateChange handler working on its endpoint
OperationOn(a) ==
  \/ pc'[a] # pc[a]
  \/ timer'[a] # timer[a]
  \/ endLog'[a] # endLog[a]
  \/ \E h \in EscHandlers :
       /\ esc'[h] # esc[h]
       /\ \/ esc[h].pc # "idle" /\ esc[h].e = TmpEndpoint(a)
          \/ esc'[h].pc # "idle" /\ esc'[h].e = TmpEndpoint(a)

\* C24: a step of an operation on one Call (creation step, ring timer, end request,
\* also one answered 404, originate attempt) leaves every other Call's KV records,
\* realtime rows, bridge, timer and handler position as they are and adds no engine
\* request naming the other Call's channel or endpoint.
C24_OtherCallUndisturbed ==
  [][\A a \in Calls :
       OperationOn(a) => \A b \in Calls \ {a} : CallFootprint(b)' = CallFootprint(b)]_vars

\* the creation step of CH1 is over and a handler has originated to its endpoint,
\* while CH2's records, bridge and ring timer are in place and no request has named
\* CH2's channel or endpoint
C24_Witness ==
  /\ pc["CH1"] = "done" /\ originates[TmpEndpoint("CH1")] > 0
  /\ Live("call", "CH2") /\ Live("originate", TmpEndpoint("CH2"))
  /\ bridgeOf["CH2"] # 0 /\ timer["CH2"].st = "armed"
  /\ hangups["CH2"] = [timer |-> 0, end |-> 0]
  /\ originates[TmpEndpoint("CH2")] = 0

\* C26: a ring timer that the creation step has armed has run once its ring timeout
\* is over, also when the process has crashed and restarted in between: the ringing
\* Call that nobody answers still gets its ring-timeout task.
C26_RingTimeoutSurvivesRestart ==
  \A c \in Calls : (timer[c].st # "none" /\ timer[c].at < now) => timer[c].st = "fired"

\* C27: after the stream has closed k + 1 times in a row with no open in between,
\* the delay chosen at the last of these closes, the one before reconnect attempt
\* k + 1, is min(30 s, 2^k s): 1, 2, 4, 8, 16, 30, 30, ... seconds, never above 30 s.
C27_BackoffDelay ==
  ws.row > 0 =>
    /\ ws.delayMs = Min(30000, 1000 * 2 ^ (ws.row - 1))
    /\ ws.delayMs <= 30000

\* seven closes in a row: the cap has been applied for the second time
C27_Witness == ws.row = 7 /\ ws.delayMs = 30000

\* C28: the event stream heals itself: every close schedules exactly one reconnect;
\* a closed stream always has a reconnect pending, however many attempts have
\* failed; there is never more than one socket or pending reconnect; and an open
\* resets the attempt counter, so that the close after it is retried after 1 s.
C28_SelfHealing ==
  /\ ws.scheduled = ws.closes
  /\ ws.sock = "closed" => ws.pending = 1
  /\ ws.pending + (IF ws.sock = "closed" THEN 0 ELSE 1) = 1
  /\ ws.sock = "open" => ws.attempts = 0
  /\ (ws.sock = "closed" /\ ws.row = 1) => ws.delayMs = 1000

\* the stream has failed to connect several times, opened, and closed again
C28_Witness ==
  ws.closes >= 4 /\ ws.row = 1 /\ ws.sock = "closed" /\ ws.delayMs = 1000

\* C29: an EndpointStateChange handler whose event reported offline or unknown, or
\* which found no originate:<id> record, issues no engine request and changes no
\* record: every step in which a handler originates or changes a Redis record is a
\* step of a handler whose event reported another state and which read a record.
C29_OfflineOrNoRecordDoesNothing ==
  [][\A h \in EscHandlers :
       (esc'[h] # esc[h] /\ (originates' # originates \/ kv' # kv)) =>
         /\ esc[h].pc # "idle"
         /\ esc[h].state \notin {"offline", "unknown"}
         /\ esc[h].pending # Null]_vars

\* a handler has originated on an "online" event while the other handler slot is
\* free: events that report offline or unknown arrive there and change nothing
C29_Witness ==
  \E h \in EscHandlers :
    /\ esc[h].pc = "delete" /\ esc[h].state = "online"
    /\ originates[esc[h].e] = 1
    /\ Live("originate", esc[h].e)
    /\ \E g \in EscHandlers \ {h} : esc[g].pc = "idle"

\* C30: a failed originate attempt, in the EndpointStateChange handler or in the
\* poller, leaves every Redis record as it was (the originate:<id> record keeps its
\* bridgeId and channelId and is not deleted); the handler returns, so that a later
\* event is handled; the poller goes on with the endpoints it has left.
C30_FailedOriginateKeepsRecord ==
  [][/\ \A h \in EscHandlers :
          (esc[h].pc = "originate" /\ esc'[h] # esc[h] /\ originates' = originates) =>
            kv' = kv /\ esc'[h] = EscIdle
     /\ \A p \in Pollers :
          (poll[p].pc = "originate" /\ poll'[p] # poll[p] /\ originates' = originates) =>
            /\ kv' = kv
            /\ poll'[p] = IF poll[p].todo = {} THEN PollIdle
                          ELSE [pc |-> "get", todo |-> poll[p].todo,
                                served |-> poll[p].served]]_vars

\* the poller's originate to an unregistered endpoint has failed: the record, written
\* before the first tick, is still live, nothing has been originated, and the tick
\* is going on with the endpoint it has left
C30_Witness ==
  \E p \in Pollers, c \in Rings :
    /\ poll[p].pc = "get" /\ poll[p].todo # {} /\ TmpEndpoint(c) \notin poll[p].todo
    /\ Live("originate", TmpEndpoint(c))
    /\ kv.originate[TmpEndpoint(c)].exp < PollPeriodSec + CallTokenTtlSec
    /\ ~reachable[TmpEndpoint(c)] /\ originates[TmpEndpoint(c)] = 0

\* C31: the bridge id passed as appArgs of an originate for the endpoint of a Call is
\* a bridge that holds the doorphone channel of that Call when the request is issued,
\* also when GET /calls/credentials has been called for the Call
C31_OriginateNamesBridgeOfChannel ==
  [][\A c \in Rings :
       \A b \in appArgs'[TmpEndpoint(c)] \ appArgs[TmpEndpoint(c)] : c \in bridges'[b]]_vars

\* C32: once the StasisStart handler of an outbound leg has added the channel to the
\* named bridge, on the first attempt or on the retry, it has asked for the members of
\* the bridge by the time it returns
C32_AddedThenInspected ==
  (leg.pc = "done" /\ leg.added # "no") => leg.inspected

\* C33: addChannelToBridge is attempted at most twice, the second time only when the
\* first attempt failed, and the handler of an outbound leg writes no record, row or
\* Call state
C33_AtMostOneRetryNoRecords ==
  [][leg' # leg =>
       /\ leg'.adds <= 2
       /\ (leg'.adds = 2 => leg'.added # "first")
       /\ (leg.pc = "done" => leg'.adds = leg.adds)
       /\ UNCHANGED <<kv, pg, realtime, callVars, cred>>]_vars

\* the first add succeeded, getBridge threw, and the handler returned after one attempt
C33_Witness ==
  leg.pc = "done" /\ leg.added = "first" /\ leg.adds = 1 /\ leg.inspected
    /\ leg.answered = "none"

TtlOf(fam) == IF fam = "originate" THEN RingTimeoutSec ELSE CallTokenTtlSec

\* C36: every Redis record is written with the TTL of its family, callTokenTtlSec for
\* call:, channel:, endpoint: and outgoing:, ringTimeoutSec for originate:, and once
\* the requests have stopped and the TTLs have passed no record is left
C36_EveryRecordExpires ==
  /\ [][\A fam \in DOMAIN KeyIds : \A id \in KeyIds[fam] :
          (kv'[fam][id] # NoRec /\ kv'[fam][id] # kv[fam][id])
            => kv'[fam][id].exp = now + TtlOf(fam)]_vars
  /\ [](now = Horizon => \A fam \in DOMAIN KeyIds : \A id \in KeyIds[fam] :
                           kv[fam][id] = NoRec)

\* a record of each of the five families is in Redis
C36_Witness ==
  \E c \in Rings, r \in RouteTokens, o \in OutgoingTokens :
    /\ Live("call", c) /\ Live("channel", c) /\ Live("endpoint", TmpEndpoint(c))
    /\ Live("originate", TmpEndpoint(c)) /\ Live("outgoing", o)
    /\ Live("call", r) /\ Live("endpoint", OutEndpoint(r))

\* C37: when the StasisStart handler of a doorphone leg that wrote the call: record
\* has returned, the ring timer of the Call is armed or has fired, also when no push
\* token is registered
C37_RingTimerArmedForEveryCall ==
  \A c \in Rings :
    (pc[c] \in {"done", "noTokens"} /\ Live("call", c))
      => timer[c].st \in {"armed", "fired"}

\* C38: once a Call has ended, by an end or reject request answered ok, by the ring
\* timer's hangup or by the StasisEnd of its channel, no originate is issued for its
\* endpoint
C38_NoOriginateAfterEnd ==
  [][\A c \in Rings :
       originates'[TmpEndpoint(c)] > originates[TmpEndpoint(c)] => ~Terminated(c)]_vars

\* C39: no failure of a Redis, realtime, engine or push call made while an engine
\* event is handled leaves its handler uncaught
C39_NoUnhandledRejection ==
  unhandled = 0

====
